---- MODULE Spec2Model ----
(***************************************************************************)
(* The flatten-and-clean pipeline of the credit applications dataset:      *)
(* data_loader.flatten_record / load_and_flatten and the eight cleaning    *)
(* steps of data_cleaning.clean_pipeline.                                  *)
(*                                                                         *)
(* Cell values are tagged records.  Text whose characters the code         *)
(* inspects (date_of_birth, email, annual_income) is a sequence of         *)
(* one-character strings; text the code only compares as a whole (app_id,  *)
(* notes, gender, ssn, ...) is a string.  None, NaN and NaT are one        *)
(* no-value marker: every test the code applies to them (pd.isna, isin,    *)
(* map, drop_duplicates) treats them alike.  Numbers are m / 10^e.         *)
(***************************************************************************)
EXTENDS Integers, Sequences, FiniteSets, TLC

VARIABLES
    pc,       \* the call in progress or about to run
    raw,      \* the raw records read by load_raw_json
    table,    \* the DataFrame the pipeline works on
    cleaned,  \* the DataFrame the first clean_pipeline call returned
    run,      \* which clean_pipeline call is in progress
    dob,      \* parse_dob's argument
    parsed,   \* parse_dob's outcome
    record,   \* flatten_record's argument
    flat      \* flatten_record's outcome

vars == <<pc, raw, table, cleaned, run, dob, parsed, record, flat>>

\* ------------------------------------------------------------------ values

NoValue == [t |-> "none"]
Str(s) == [t |-> "str", s |-> s]
Txt(x) == [t |-> "txt", x |-> x]
Num(m, e) == [t |-> "num", m |-> m, e |-> e]
Whole(n) == Num(n, 0)
Bool(b) == [t |-> "bool", b |-> b]
Date(y, m, d) == [t |-> "date", y |-> y, m |-> m, d |-> d]

\* pd.isna / pd.notna on a scalar
IsNa(c) == c.t = "none"

\* val == "" for a scalar
IsEmptyText(c) ==
    IF c.t = "txt" THEN c.x = <<>>
    ELSE IF c.t = "str" THEN c.s = ""
    ELSE FALSE

\* ------------------------------------------------------------ character text

Digits == {"0", "1", "2", "3", "4", "5", "6", "7", "8", "9"}
Letters ==
    {"a", "b", "c", "d", "e", "f", "g", "h", "i", "j", "k", "l", "m", "n", "o",
     "p", "q", "r", "s", "t", "u", "v", "w", "x", "y", "z",
     "A", "B", "C", "D", "E", "F", "G", "H", "I", "J", "K", "L", "M", "N", "O",
     "P", "Q", "R", "S", "T", "U", "V", "W", "X", "Y", "Z"}
Whitespace == {" "}

DigitVal(ch) ==
    CASE ch = "0" -> 0 [] ch = "1" -> 1 [] ch = "2" -> 2 [] ch = "3" -> 3
      [] ch = "4" -> 4 [] ch = "5" -> 5 [] ch = "6" -> 6 [] ch = "7" -> 7
      [] ch = "8" -> 8 [] ch = "9" -> 9

DigitChar(n) ==
    CASE n = 0 -> "0" [] n = 1 -> "1" [] n = 2 -> "2" [] n = 3 -> "3"
      [] n = 4 -> "4" [] n = 5 -> "5" [] n = 6 -> "6" [] n = 7 -> "7"
      [] n = 8 -> "8" [] n = 9 -> "9"

AllDigits(s) == \A i \in 1..Len(s) : s[i] \in Digits

RECURSIVE DigitsVal(_)
DigitsVal(s) ==
    IF s = <<>> THEN 0
    ELSE 10 * DigitsVal(SubSeq(s, 1, Len(s) - 1)) + DigitVal(s[Len(s)])

Contains(s, ch) == \E i \in 1..Len(s) : s[i] = ch

\* str.strip()
RECURSIVE LStrip(_)
LStrip(s) ==
    IF s /= <<>> /\ Head(s) \in Whitespace THEN LStrip(Tail(s)) ELSE s

RECURSIVE RStrip(_)
RStrip(s) ==
    IF s /= <<>> /\ s[Len(s)] \in Whitespace
    THEN RStrip(SubSeq(s, 1, Len(s) - 1)) ELSE s

Strip(s) == RStrip(LStrip(s))

\* str.split(sep): always at least one part
RECURSIVE SplitFrom(_, _, _)
SplitFrom(s, sep, cur) ==
    IF s = <<>> THEN <<cur>>
    ELSE IF Head(s) = sep THEN <<cur>> \o SplitFrom(Tail(s), sep, <<>>)
    ELSE SplitFrom(Tail(s), sep, Append(cur, Head(s)))

Split(s, sep) == SplitFrom(s, sep, <<>>)

\* n written with at least w digits, zero padded
RECURSIVE Pad(_, _)
Pad(n, w) ==
    IF w <= 1 /\ n < 10 THEN <<DigitChar(n)>>
    ELSE Append(Pad(n \div 10, w - 1), DigitChar(n % 10))

RECURSIVE Pow10(_)
Pow10(e) == IF e = 0 THEN 1 ELSE 10 * Pow10(e - 1)

\* int(text): surrounding whitespace and one sign are accepted
PyInt(s) ==
    LET b == Strip(s)
        signed == b /= <<>> /\ Head(b) \in {"+", "-"}
        body == IF signed THEN Tail(b) ELSE b
    IN  IF body = <<>> \/ ~AllDigits(body)
        THEN [ok |-> FALSE, v |-> 0]
        ELSE [ok |-> TRUE,
              v |-> IF signed /\ Head(b) = "-" THEN 0 - DigitsVal(body)
                    ELSE DigitsVal(body)]

\* str(val) of a scalar cell; a Timestamp prints as YYYY-MM-DD 00:00:00
PyStr(c) ==
    CASE c.t = "txt" -> c.x
      [] c.t = "date" ->
            Pad(c.y, 4) \o <<"-">> \o Pad(c.m, 2) \o <<"-">> \o Pad(c.d, 2)
              \o <<" ", "0", "0", ":", "0", "0", ":", "0", "0">>
      [] c.t = "num" -> Pad(c.m, 1)

\* ------------------------------------------------------- pd.to_datetime(format=)

IsLeap(y) == (y % 4 = 0 /\ y % 100 /= 0) \/ y % 400 = 0

DaysIn(y, m) ==
    IF m \in {4, 6, 9, 11} THEN 30
    ELSE IF m = 2 THEN (IF IsLeap(y) THEN 29 ELSE 28)
    ELSE 31

At(s, i) == IF i >= 1 /\ i <= Len(s) THEN s[i] ELSE "<end>"

\* The alternatives of one strptime directive at position pos, in the order
\* the regular expression tries them: each is [len, v].
\*   %d  3[01]|[12]\d|0[1-9]|[1-9]| [1-9]
\*   %m  1[0-2]|0[1-9]|[1-9]
\*   %Y  \d\d\d\d
DirectiveAlternatives(tok, s, pos) ==
    LET c1 == At(s, pos)
        c2 == At(s, pos + 1)
        two == 10 * DigitVal(c1) + DigitVal(c2)
        one == <<[len |-> 1, v |-> DigitVal(c1)]>>
    IN  CASE tok = "%d" ->
               (IF (c1 = "3" /\ c2 \in {"0", "1"})
                     \/ (c1 \in {"1", "2"} /\ c2 \in Digits)
                     \/ (c1 = "0" /\ c2 \in Digits \ {"0"})
                THEN <<[len |-> 2, v |-> two]>> ELSE <<>>)
               \o (IF c1 \in Digits \ {"0"} THEN one ELSE <<>>)
               \o (IF c1 = " " /\ c2 \in Digits \ {"0"}
                   THEN <<[len |-> 2, v |-> DigitVal(c2)]>> ELSE <<>>)
          [] tok = "%m" ->
               (IF (c1 = "1" /\ c2 \in {"0", "1", "2"})
                     \/ (c1 = "0" /\ c2 \in Digits \ {"0"})
                THEN <<[len |-> 2, v |-> two]>> ELSE <<>>)
               \o (IF c1 \in Digits \ {"0"} THEN one ELSE <<>>)
          [] tok = "%Y" ->
               IF \A k \in 0..3 : At(s, pos + k) \in Digits
               THEN <<[len |-> 4, v |-> DigitsVal(SubSeq(s, pos, pos + 3))]>>
               ELSE <<>>

IsDirective(tok) == tok \in {"%d", "%m", "%Y"}

\* re.match of the format's regular expression at pos: the matches in the
\* order backtracking finds them, each [end, f] with f the fields read.
RECURSIVE MatchFrom(_, _, _, _)
RECURSIVE TryAlternatives(_, _, _, _, _)
MatchFrom(s, pos, fmt, f) ==
    IF fmt = <<>> THEN <<[end |-> pos, f |-> f]>>
    ELSE IF IsDirective(Head(fmt))
         THEN TryAlternatives(DirectiveAlternatives(Head(fmt), s, pos),
                              s, pos, fmt, f)
         ELSE IF At(s, pos) = Head(fmt)
              THEN MatchFrom(s, pos + 1, Tail(fmt), f)
              ELSE <<>>
TryAlternatives(alts, s, pos, fmt, f) ==
    IF alts = <<>> THEN <<>>
    ELSE MatchFrom(s, pos + Head(alts).len, Tail(fmt),
                   (Head(fmt) :> Head(alts).v) @@ f)
           \o TryAlternatives(Tail(alts), s, pos, fmt, f)

\* pd.to_datetime(val, format=fmt) inside try/except (ValueError, TypeError):
\* the first match must end at the end of the text ("unconverted data
\* remains" otherwise) and name a day of the calendar; else pd.NaT.
to_datetime(val, fmt) ==
    LET ms == MatchFrom(val, 1, fmt, <<>>)
    IN  IF ms = <<>> THEN NoValue
        ELSE LET m == Head(ms)
                 y == m.f["%Y"]
                 mo == m.f["%m"]
                 d == m.f["%d"]
             IN  IF m.end /= Len(val) + 1 THEN NoValue
                 ELSE IF y < 1 \/ d > DaysIn(y, mo) THEN NoValue
                 ELSE Date(y, mo, d)

FmtISO == <<"%Y", "-", "%m", "-", "%d">>
FmtYMD == <<"%Y", "/", "%m", "/", "%d">>
FmtDMY == <<"%d", "/", "%m", "/", "%Y">>
FmtMDY == <<"%m", "/", "%d", "/", "%Y">>

\* ------------------------------------------------------------ normalize_dates

Returned(v) == [raised |-> FALSE, value |-> v]
Raised(exc) == [raised |-> TRUE, value |-> Str(exc)]

SlashFormat_MonthFirst(first, second) ==
    IF first > 12 THEN FmtDMY ELSE FmtMDY

\* which of the two integers read from a slash date decides the format
SlashFormat(first, second) ==
    IF first > 12 THEN FmtDMY
    ELSE IF second > 12 THEN FmtMDY
    ELSE FmtDMY

parse_dob(c) ==
    IF IsNa(c) \/ IsEmptyText(c) \/ c = Txt(<<"N", "o", "n", "e">>)
    THEN Returned(NoValue)
    ELSE
    LET val == Strip(PyStr(c)) IN
    IF val = <<>> THEN Returned(NoValue)
    ELSE IF Contains(val, "-") THEN Returned(to_datetime(val, FmtISO))
    ELSE IF Contains(val, "/") THEN
        LET parts == Split(val, "/") IN
        IF Len(parts) /= 3 THEN Returned(NoValue)
        ELSE IF Len(parts[1]) = 4 THEN Returned(to_datetime(val, FmtYMD))
        ELSE LET first == PyInt(parts[1])
                 second == PyInt(parts[2])
             IN  IF ~first.ok \/ ~second.ok THEN Raised("ValueError")
                 ELSE Returned(to_datetime(val, SlashFormat(first.v, second.v)))
    ELSE Returned(NoValue)

\* ------------------------------------------------------------ tables

\* A DataFrame: its column labels in order and its rows in order; a row is
\* its index label and its cells by column.
EmptyTable == [cols |-> <<>>, rows |-> <<>>]

HasColumn(df, name) == \E i \in 1..Len(df.cols) : df.cols[i] = name

\* df[name] = values: an existing column is overwritten in place, a new one
\* is appended; values[i] is the cell of the i-th row
SetColumn(df, name, values) ==
    [cols |-> IF HasColumn(df, name) THEN df.cols ELSE Append(df.cols, name),
     rows |-> [i \in 1..Len(df.rows) |->
                 [index |-> df.rows[i].index,
                  c |-> (name :> values[i]) @@ df.rows[i].c]]]

Column(df, name) == [i \in 1..Len(df.rows) |-> df.rows[i].c[name]]

\* ---------------------------------------------------------- remove_duplicates

DuplicateMarkers == {Str("DUPLICATE_ENTRY_ERROR"), Str("RESUBMISSION")}

RECURSIVE SelectRows(_, _, _)
\* the rows of rs at the positions in keep, in order
SelectRows(rs, keep, i) ==
    IF i > Len(rs) THEN <<>>
    ELSE (IF i \in keep THEN <<rs[i]>> ELSE <<>>) \o SelectRows(rs, keep, i + 1)

drop_duplicates_KeepLast(df) ==
    [cols |-> df.cols,
     rows |-> SelectRows(df.rows,
                { i \in 1..Len(df.rows) :
                    \A j \in (i + 1)..Len(df.rows) :
                        df.rows[j].c["app_id"] /= df.rows[i].c["app_id"] }, 1)]

\* df.drop_duplicates(subset=["app_id"], keep="first")
drop_duplicates(df) ==
    [cols |-> df.cols,
     rows |-> SelectRows(df.rows,
                { i \in 1..Len(df.rows) :
                    \A j \in 1..(i - 1) :
                        df.rows[j].c["app_id"] /= df.rows[i].c["app_id"] }, 1)]

remove_duplicates(df) ==
    LET unmarked == [cols |-> df.cols,
                     rows |-> SelectRows(df.rows,
                        { i \in 1..Len(df.rows) :
                            df.rows[i].c["notes"] \notin DuplicateMarkers }, 1)]
    IN  drop_duplicates(unmarked)

\* --------------------------------------------------------- standardize_gender

gender_map ==
    (Str("Male") :> Str("Male")) @@ (Str("M") :> Str("Male"))
      @@ (Str("Female") :> Str("Female")) @@ (Str("F") :> Str("Female"))
      @@ (Str("") :> NoValue) @@ (NoValue :> NoValue)

MapValue_CaseFold(c) ==
    IF c \in {Str("male"), Str("m")} THEN Str("Male")
    ELSE IF c \in DOMAIN gender_map THEN gender_map[c] ELSE NoValue

\* Series.map(dict): a value that is no key of the dict maps to NaN
MapValue(c) == IF c \in DOMAIN gender_map THEN gender_map[c] ELSE NoValue

standardize_gender(df) ==
    LET audited == SetColumn(df, "gender_original", Column(df, "gender"))
    IN  SetColumn(audited, "gender",
                  [i \in 1..Len(df.rows) |-> MapValue(df.rows[i].c["gender"])])

\* ------------------------------------------------------------ normalize_dates

\* Series.apply(parse_dob) raises what parse_dob raises on any row
normalize_dates(df) ==
    LET audited == SetColumn(df, "date_of_birth_original", Column(df, "date_of_birth"))
        results == [i \in 1..Len(df.rows) |-> parse_dob(df.rows[i].c["date_of_birth"])]
    IN  IF \E i \in 1..Len(df.rows) : results[i].raised
        THEN [raised |-> TRUE, value |-> audited]
        ELSE Returned(SetColumn(audited, "date_of_birth",
                                [i \in 1..Len(df.rows) |-> results[i].value]))

\* ----------------------------------------------------------- fix_income_types

\* a decimal literal: optional sign, digits, optional point and digits
ParseDecimal(s) ==
    LET b == Strip(s)
        signed == b /= <<>> /\ Head(b) \in {"+", "-"}
        body == IF signed THEN Tail(b) ELSE b
        p == Split(body, ".")
        whole == p[1]
        frac == IF Len(p) = 2 THEN p[2] ELSE <<>>
        m == DigitsVal(whole \o frac)
    IN  IF Len(p) > 2 \/ ~AllDigits(whole) \/ ~AllDigits(frac)
           \/ (whole = <<>> /\ frac = <<>>)
        THEN NoValue
        ELSE Num(IF signed /\ Head(b) = "-" THEN 0 - m ELSE m, Len(frac))

\* pd.to_numeric(errors="coerce") on one value
to_numeric(c) ==
    IF c.t = "num" THEN c
    ELSE IF c.t = "txt" THEN ParseDecimal(c.x)
    ELSE NoValue

\* the integer nearest n / d (d > 0), ties to the even one
RoundHalfEven(n, d) ==
    LET q == n \div d
        r == n % d
    IN  IF 2 * r < d THEN q
        ELSE IF 2 * r > d THEN q + 1
        ELSE IF q % 2 = 0 THEN q ELSE q + 1

\* Series.round(0)
Round0(c) == IF c.t = "num" THEN Whole(RoundHalfEven(c.m, Pow10(c.e))) ELSE c

fix_income_types(df) ==
    SetColumn(df, "annual_income",
              [i \in 1..Len(df.rows) |-> Round0(to_numeric(df.rows[i].c["annual_income"]))])

\* --------------------------------------------------------- fix_invalid_values

\* these columns hold numbers or no value
NegativeToNaN(c) == IF c.t = "num" /\ c.m < 0 THEN NoValue ELSE c

fix_invalid_values_DropRows(df) ==
    [cols |-> df.cols,
     rows |-> SelectRows(df.rows,
                { i \in 1..Len(df.rows) :
                    /\ NegativeToNaN(df.rows[i].c["credit_history_months"]) /= NoValue
                    /\ NegativeToNaN(df.rows[i].c["savings_balance"]) /= NoValue }, 1)]

fix_invalid_values(df) ==
    LET ch == SetColumn(df, "credit_history_months",
                [i \in 1..Len(df.rows) |->
                    NegativeToNaN(df.rows[i].c["credit_history_months"])])
    IN  SetColumn(ch, "savings_balance",
                [i \in 1..Len(df.rows) |->
                    NegativeToNaN(df.rows[i].c["savings_balance"])])

\* ------------------------------------------------------------ validate_emails

LocalChars == Letters \cup Digits \cup {".", "_", "%", "+", "-"}
DomainChars == Letters \cup Digits \cup {".", "-"}

\* ^[a-zA-Z0-9._%+-]+@[a-zA-Z0-9.-]+\.[a-zA-Z]{2,}$
email_pattern_match(s) ==
    \E at \in 1..Len(s) : \E dot \in (at + 1)..Len(s) :
        /\ s[at] = "@"
        /\ s[dot] = "."
        /\ at > 1
        /\ \A i \in 1..(at - 1) : s[i] \in LocalChars
        /\ dot > at + 1
        /\ \A i \in (at + 1)..(dot - 1) : s[i] \in DomainChars
        /\ Len(s) >= dot + 2
        /\ \A i \in (dot + 1)..Len(s) : s[i] \in Letters

is_valid_email(c) ==
    IF IsNa(c) \/ IsEmptyText(c) THEN FALSE ELSE email_pattern_match(PyStr(c))

validate_emails(df) ==
    SetColumn(df, "email_valid",
              [i \in 1..Len(df.rows) |-> Bool(is_valid_email(df.rows[i].c["email"]))])

\* -------------------------------------------------------- flag_missing_fields

core_fields ==
    <<"full_name", "email", "ssn", "ip_address", "gender", "date_of_birth",
      "zip_code", "annual_income", "credit_history_months", "debt_to_income",
      "savings_balance", "loan_approved">>

\* row.get(field)
RowGet(row, field) == IF field \in DOMAIN row.c THEN row.c[field] ELSE NoValue

count_complete_NotNull(row) ==
    Cardinality({ k \in 1..Len(core_fields) : ~IsNa(RowGet(row, core_fields[k])) })

count_complete(row) ==
    Cardinality({ k \in 1..Len(core_fields) :
                    /\ ~IsNa(RowGet(row, core_fields[k]))
                    /\ ~IsEmptyText(RowGet(row, core_fields[k])) })

\* (score / len(core_fields) * 100).round(1), in tenths
completeness_pct(score) ==
    Num(RoundHalfEven(score * 100 * 10, Len(core_fields)), 1)

flag_missing_fields(df) ==
    LET scored == SetColumn(df, "completeness_score",
                    [i \in 1..Len(df.rows) |-> Whole(count_complete(df.rows[i]))])
    IN  SetColumn(scored, "completeness_pct",
                    [i \in 1..Len(df.rows) |->
                        completeness_pct(scored.rows[i].c["completeness_score"].m)])

\* -------------------------------------------------------- flag_ssn_duplicates

ssn_valid_AnyPresent(df) ==
    { i \in 1..Len(df.rows) : ~IsNa(df.rows[i].c["ssn"]) }

\* the positions of the rows whose ssn is not null and not ""
ssn_valid(df) ==
    { i \in 1..Len(df.rows) :
        ~IsNa(df.rows[i].c["ssn"]) /\ df.rows[i].c["ssn"] /= Str("") }

\* the values counted more than once among the valid rows
dup_ssns(df) ==
    { df.rows[i].c["ssn"] : i \in
        { k \in ssn_valid(df) :
            Cardinality({ j \in ssn_valid(df) :
                            df.rows[j].c["ssn"] = df.rows[k].c["ssn"] }) > 1 } }

flag_ssn_duplicates(df) ==
    SetColumn(df, "ssn_duplicate_flag",
              [i \in 1..Len(df.rows) |-> Bool(df.rows[i].c["ssn"] \in dup_ssns(df))])

\* ------------------------------------------------- date_of_birth values tried

RECURSIVE Join(_, _)
Join(parts, sep) ==
    IF Len(parts) = 1 THEN parts[1]
    ELSE parts[1] \o <<sep>> \o Join(Tail(parts), sep)

SlashFirst ==
    { <<>>, <<"5">>, <<"0", "5">>, <<"1", "2">>, <<"1", "3">>, <<"2", "9">>,
      <<"3", "0">>, <<"3", "1">>, <<"0">>, <<"0", "0", "5">>, <<"+", "5">>,
      <<"5", " ">>, <<"a", "b">>, <<"2", "0", "2", "0">>, <<"1", "9", "9", "9">> }
SlashSecond ==
    { <<>>, <<"4">>, <<"0", "4">>, <<"0", "2">>, <<"0", "5">>, <<"1", "2">>,
      <<"1", "3">>, <<"3", "1">>, <<"0">>, <<" ", "4">>, <<"c", "d">> }
SlashThird ==
    { <<>>, <<"2", "0", "2", "0">>, <<"1", "9", "9", "9">>, <<"2", "0">>,
      <<"2", "0", "2", "0", " ">> }

HyphenYear == { <<"2", "0", "2", "0">>, <<"1", "9", "9", "9">>, <<"2", "0">> }
HyphenMonth ==
    { <<"0", "5">>, <<"5">>, <<"0", "2">>, <<"1", "3">>, <<"0", "0">> }
HyphenDay ==
    { <<"0", "1">>, <<"1">>, <<"2", "9">>, <<"3", "0">>, <<"3", "1">>,
      <<"a", "b">> }

OtherDobText ==
    { <<>>, <<" ", " ">>, <<"N", "o", "n", "e">>,
      <<"n", "o", "t", "-", "a", "-", "d", "a", "t", "e">>,
      <<"2", "0", "2", "0", "0", "5", "0", "1">>,
      <<"0", "5", "/", "2", "0", "2", "0">>,
      <<"1", "/", "2", "/", "3", "/", "4">>,
      <<"1", "3", "-", "0", "5", "-", "2", "0", "2", "0">>,
      <<"2", "0", "2", "0", "/", "0", "5", "-", "0", "1">>,
      <<"1", "3", "/", "0", "5", "/", "2", "0", "2", "0", "-">>,
      <<" ", "1", "3", "/", "0", "5", "/", "2", "0", "2", "0">>,
      <<"2", "0", "2", "0", "-", "0", "5", "-", "0", "1", " ", "0", "0", ":",
        "0", "0", ":", "0", "0">> }

DobText ==
    { Join(<<a, b, c>>, "/") : a \in SlashFirst, b \in SlashSecond, c \in SlashThird }
      \cup { Join(<<y, m, d>>, "-") : y \in HyphenYear, m \in HyphenMonth, d \in HyphenDay }
      \cup OtherDobText

\* the values a date_of_birth cell holds: absent, raw text, or the Timestamp
\* an earlier normalize_dates pass left there
DobInputs ==
    {NoValue} \cup { Txt(x) : x \in DobText }
      \cup { Date(2020, 5, 1), Date(1999, 12, 31) }


\* ------------------------------------------------ parse_dob on its own

InitDates ==
    /\ pc = "parse_dob"
    /\ dob \in DobInputs
    /\ parsed = Returned(NoValue)
    /\ raw = <<>>
    /\ table = EmptyTable
    /\ cleaned = EmptyTable
    /\ run = 1
    /\ record = <<>>
    /\ flat = Returned(NoValue)

ParseDob ==
    /\ pc = "parse_dob"
    /\ parsed' = parse_dob(dob)
    /\ pc' = "parsed"
    /\ UNCHANGED <<raw, table, cleaned, run, dob, record, flat>>

NextDates == ParseDob

SpecDates == InitDates /\ [][NextDates]_vars

\* ------------------------------------------------------------ C3, C4

\* C3: date parsing is never fatal: whatever the date_of_birth value, parse_dob
\* resolves it to a date or to "no date" and no exception escapes.
C3_NeverFatal == pc = "parsed" => ~parsed.raised

\* a day or month as strptime reads it: one or two decimal digits
WrittenNumber(x) == x /= <<>> /\ Len(x) <= 2 /\ AllDigits(x)

\* the calendar date written year ytxt, month mtxt, day dtxt, when it exists
CalendarDate(ytxt, mtxt, dtxt) ==
    IF Len(ytxt) = 4 /\ AllDigits(ytxt) /\ WrittenNumber(mtxt) /\ WrittenNumber(dtxt)
    THEN LET y == DigitsVal(ytxt)
             m == DigitsVal(mtxt)
             d == DigitsVal(dtxt)
         IN  IF y >= 1 /\ m >= 1 /\ m <= 12 /\ d >= 1 /\ d <= DaysIn(y, m)
             THEN Date(y, m, d) ELSE NoValue
    ELSE NoValue

C4_Covered(val) ==
    \/ Contains(val, "-")
    \/ ~Contains(val, "/")
    \/ LET p == Split(val, "/")
       IN  Len(p) = 3 /\ Len(p[1]) /= 4 /\ PyInt(p[1]).ok /\ PyInt(p[2]).ok

C4_Expected(val) ==
    IF Contains(val, "-")
    THEN LET p == Split(val, "-")
         IN  IF Len(p) = 3 THEN CalendarDate(p[1], p[2], p[3]) ELSE NoValue
    ELSE IF ~Contains(val, "/") THEN NoValue
    ELSE LET p == Split(val, "/")
             a == PyInt(p[1]).v
             b == PyInt(p[2]).v
         IN  IF a > 12 THEN CalendarDate(p[3], p[2], p[1])
             ELSE IF b > 12 THEN CalendarDate(p[3], p[1], p[2])
             ELSE CalendarDate(p[3], p[2], p[1])

\* C4: a trimmed value a/b/c (three parts, a not 4 characters, a and b
\* integers) is read day=a, month=b when a > 12, else month=a, day=b when
\* b > 12, else day=a, month=b, and gives that calendar date when it exists
\* and "no date" otherwise; a value with '-' is read only as YYYY-MM-DD; a value
\* with neither '-' nor '/' gives "no date".
C4_Disambiguation ==
    (pc = "parsed" /\ dob.t = "txt" /\ C4_Covered(Strip(dob.x)))
        => parsed = Returned(C4_Expected(Strip(dob.x)))

C4_Witness ==
    /\ pc = "parsed"
    /\ dob = Txt(<<"0", "5", "/", "1", "3", "/", "2", "0", "2", "0">>)
    /\ parsed = Returned(Date(2020, 5, 13))

\* ------------------------------------------------ data_loader.flatten_record

\* A raw record is a function from the keys present to JSON values: a scalar
\* cell, Map(f) for a nested object, List(s) for an array.  A key that is
\* absent is not in the domain; a key holding null holds NoValue.
EmptyDict == [k \in {} |-> NoValue]
Map(f) == [t |-> "map", f |-> f]
List(s) == [t |-> "list", s |-> s]

Get_NoDefault(d, k, default) == IF k \in DOMAIN d THEN d[k] ELSE NoValue

\* dict.get(key, default)
Get(d, k, default) == IF k \in DOMAIN d THEN d[k] ELSE default

AddNum(a, b) ==
    LET e == IF a.e > b.e THEN a.e ELSE b.e
    IN  Num(a.m * Pow10(e - a.e) + b.m * Pow10(e - b.e), e)

\* sum(item.get("amount", 0) for item in spending)
RECURSIVE SumAmounts(_)
SumAmounts(spending) ==
    IF spending = <<>> THEN Whole(0)
    ELSE AddNum(SumAmounts(SubSeq(spending, 1, Len(spending) - 1)),
                Get(spending[Len(spending)], "amount", Whole(0)))

\* "|".join(item.get("category", "") for item in spending)
RECURSIVE JoinCategories(_)
JoinCategories(spending) ==
    IF spending = <<>> THEN <<>>
    ELSE IF Len(spending) = 1 THEN Get(spending[1], "category", Txt(<<>>)).x
    ELSE Get(spending[1], "category", Txt(<<>>)).x \o <<"|">>
           \o JoinCategories(Tail(spending))

\* the keys of the flat dictionary, in the order flatten_record inserts them
FlatColumns ==
    <<"app_id", "full_name", "email", "ssn", "ip_address", "gender",
      "date_of_birth", "zip_code", "annual_income", "credit_history_months",
      "debt_to_income", "savings_balance", "spending_total",
      "spending_categories", "spending_category_list", "loan_approved",
      "interest_rate", "approved_amount", "rejection_reason",
      "processing_timestamp", "loan_purpose", "notes">>

flatten_record(rec) ==
    LET app_info == Get(rec, "applicant_info", Map(EmptyDict))
        fin == Get(rec, "financials", Map(EmptyDict))
        spending == Get(rec, "spending_behavior", List(<<>>))
        dec == Get(rec, "decision", Map(EmptyDict))
    IN  IF app_info.t /= "map" THEN Raised("AttributeError")
        ELSE IF fin.t /= "map" THEN Raised("AttributeError")
        ELSE IF spending.t /= "list" THEN Raised("TypeError")
        ELSE IF \E i \in 1..Len(spending.s) :
                    Get(spending.s[i], "amount", Whole(0)).t /= "num"
             THEN Raised("TypeError")
        ELSE IF \E i \in 1..Len(spending.s) :
                    Get(spending.s[i], "category", Txt(<<>>)).t /= "txt"
             THEN Raised("TypeError")
        ELSE IF dec.t /= "map" THEN Raised("AttributeError")
        ELSE Returned(
              ("app_id" :> Get(rec, "_id", NoValue))
           @@ ("full_name" :> Get(app_info.f, "full_name", NoValue))
           @@ ("email" :> Get(app_info.f, "email", NoValue))
           @@ ("ssn" :> Get(app_info.f, "ssn", NoValue))
           @@ ("ip_address" :> Get(app_info.f, "ip_address", NoValue))
           @@ ("gender" :> Get(app_info.f, "gender", NoValue))
           @@ ("date_of_birth" :> Get(app_info.f, "date_of_birth", NoValue))
           @@ ("zip_code" :> Get(app_info.f, "zip_code", NoValue))
           @@ ("annual_income" :> Get(fin.f, "annual_income", NoValue))
           @@ ("credit_history_months" :> Get(fin.f, "credit_history_months", NoValue))
           @@ ("debt_to_income" :> Get(fin.f, "debt_to_income", NoValue))
           @@ ("savings_balance" :> Get(fin.f, "savings_balance", NoValue))
           @@ ("spending_total" :> SumAmounts(spending.s))
           @@ ("spending_categories" :> Whole(Len(spending.s)))
           @@ ("spending_category_list" :> Txt(JoinCategories(spending.s)))
           @@ ("loan_approved" :> Get(dec.f, "loan_approved", NoValue))
           @@ ("interest_rate" :> Get(dec.f, "interest_rate", NoValue))
           @@ ("approved_amount" :> Get(dec.f, "approved_amount", NoValue))
           @@ ("rejection_reason" :> Get(dec.f, "rejection_reason", NoValue))
           @@ ("processing_timestamp" :> Get(rec, "processing_timestamp", NoValue))
           @@ ("loan_purpose" :> Get(rec, "loan_purpose", NoValue))
           @@ ("notes" :> Get(rec, "notes", NoValue)))

\* ------------------------------------------------------- raw records tried

Restrict(f, K) == [k \in K |-> f[k]]

Absent == [t |-> "absent"]

\* the dictionary of the keys of f that are not marked absent
Present(f) == Restrict(f, {k \in DOMAIN f : f[k].t /= "absent"})

EmailGood == Txt(<<"a", "@", "b", ".", "c", "o">>)
EmailBad == Txt(<<"b", "a", "d", "@">>)

FullApplicantInfo ==
    [full_name |-> Str("Ann Lee"), email |-> EmailGood, ssn |-> Str("111"),
     ip_address |-> Str("10.0.0.1"), gender |-> Str("F"),
     date_of_birth |-> Txt(<<"1", "3", "/", "0", "5", "/", "1", "9", "9", "9">>),
     zip_code |-> Str("10001")]

FullFinancials ==
    [annual_income |-> Whole(50000), credit_history_months |-> Whole(24),
     debt_to_income |-> Num(35, 2), savings_balance |-> Whole(1000)]

FullDecision ==
    [loan_approved |-> Bool(FALSE), interest_rate |-> NoValue,
     approved_amount |-> NoValue, rejection_reason |-> Str("low income")]

ApplicantInfoTried ==
    { Absent, NoValue, Map(EmptyDict), Map(FullApplicantInfo),
      Map(Restrict(FullApplicantInfo, DOMAIN FullApplicantInfo \ {"email", "ssn"})),
      Map(Restrict(FullApplicantInfo, {"gender"})) }

FinancialsTried ==
    { Absent, NoValue, Map(EmptyDict), Map(FullFinancials),
      Map(Restrict(FullFinancials, DOMAIN FullFinancials \ {"annual_income"})) }

DecisionTried ==
    { Absent, NoValue, Map(FullDecision),
      Map(Restrict(FullDecision, {"loan_approved"})) }

Rent == Txt(<<"R", "e", "n", "t">>)
Food == Txt(<<"F", "o", "o", "d">>)

SpendingTried ==
    { Absent, NoValue, List(<<>>),
      List(<<[category |-> Rent, amount |-> Whole(900)]>>),
      List(<<[category |-> Rent],
             [amount |-> Num(255, 1)],
             [category |-> Food, amount |-> Whole(120)]>>),
      List(<<[category |-> Food, amount |-> Whole(120)],
             [category |-> Rent, amount |-> Whole(900)]>>) }

RawRecords ==
    { Present(("_id" :> id) @@ ("applicant_info" :> info) @@ ("financials" :> fin)
              @@ ("spending_behavior" :> sp) @@ ("decision" :> dec)
              @@ ("processing_timestamp" :> ts) @@ ("loan_purpose" :> ts)
              @@ ("notes" :> notes)) :
        id \in {Absent, Str("A1")}, info \in ApplicantInfoTried,
        fin \in FinancialsTried, sp \in SpendingTried, dec \in DecisionTried,
        ts \in {Absent, Str("2024-01-15")}, notes \in {Absent, Str("RESUBMISSION")} }

\* ------------------------------------------- flatten_record on its own

InitFlatten ==
    /\ pc = "flatten_record"
    /\ record \in RawRecords
    /\ flat = Returned(NoValue)
    /\ raw = <<>>
    /\ table = EmptyTable
    /\ cleaned = EmptyTable
    /\ run = 1
    /\ dob = NoValue
    /\ parsed = Returned(NoValue)

FlattenRecord ==
    /\ pc = "flatten_record"
    /\ flat' = flatten_record(record)
    /\ pc' = "flattened"
    /\ UNCHANGED <<raw, table, cleaned, run, dob, parsed, record>>

NextFlatten == FlattenRecord

SpecFlatten == InitFlatten /\ [][NextFlatten]_vars

\* ------------------------------------------------------------ C9

\* no group of the record, and no amount or category, holds null or a value
\* of another kind: parts are either present or absent
C9_PartsPresentOrAbsent(rec) ==
    /\ \A g \in {"applicant_info", "financials", "decision"} \cap DOMAIN rec :
           rec[g].t = "map"
    /\ "spending_behavior" \in DOMAIN rec => rec["spending_behavior"].t = "list"

C9_Entries(rec) ==
    IF "spending_behavior" \in DOMAIN rec THEN rec["spending_behavior"].s ELSE <<>>

C9_GroupFields ==
    ("applicant_info" :> {"full_name", "email", "ssn", "ip_address", "gender",
                          "date_of_birth", "zip_code"})
    @@ ("financials" :> {"annual_income", "credit_history_months",
                         "debt_to_income", "savings_balance"})
    @@ ("decision" :> {"loan_approved", "interest_rate", "approved_amount",
                       "rejection_reason"})

\* C9: for a record with any subset of its groups and leaf fields absent,
\* flatten_record does not fail and returns the fixed 22 columns; every field
\* of an absent group is no-value, an absent amount counts as 0, an absent or
\* empty spending_behavior gives total 0, count 0 and an empty list text;
\* otherwise the list text holds the categories in their original order.
C9_FlattenTotal ==
    (pc = "flattened" /\ C9_PartsPresentOrAbsent(record)) =>
        /\ ~flat.raised
        /\ DOMAIN flat.value = { FlatColumns[i] : i \in 1..Len(FlatColumns) }
        /\ Cardinality(DOMAIN flat.value) = 22
        /\ \A g \in DOMAIN C9_GroupFields :
              g \notin DOMAIN record =>
                  \A k \in C9_GroupFields[g] : flat.value[k] = NoValue
        /\ \A g \in DOMAIN C9_GroupFields \cap DOMAIN record :
              \A k \in C9_GroupFields[g] :
                  flat.value[k] = (IF k \in DOMAIN record[g].f
                                   THEN record[g].f[k] ELSE NoValue)
        /\ flat.value["spending_categories"] = Whole(Len(C9_Entries(record)))
        /\ C9_Entries(record) = <<>> =>
              /\ flat.value["spending_total"] = Whole(0)
              /\ flat.value["spending_category_list"] = Txt(<<>>)
        /\ C9_Entries(record) /= <<>> =>
              Split(flat.value["spending_category_list"].x, "|") =
                  [i \in 1..Len(C9_Entries(record)) |->
                      IF "category" \in DOMAIN C9_Entries(record)[i]
                      THEN C9_Entries(record)[i]["category"].x ELSE <<>>]
        /\ flat.value["spending_total"] =
              SumAmounts([i \in 1..Len(C9_Entries(record)) |->
                  IF "amount" \in DOMAIN C9_Entries(record)[i]
                  THEN C9_Entries(record)[i]
                  ELSE ("amount" :> Whole(0)) @@ C9_Entries(record)[i]])

C9_Witness ==
    /\ pc = "flattened"
    /\ DOMAIN record = {"_id", "spending_behavior"}
    /\ record["spending_behavior"].t = "list"
    /\ Len(record["spending_behavior"].s) = 3
    /\ ~flat.raised
    /\ flat.value["gender"] = NoValue
    /\ flat.value["spending_total"] = Num(1455, 1)
    /\ flat.value["spending_category_list"] =
           Txt(<<"R", "e", "n", "t", "|", "|", "F", "o", "o", "d">>)

\* ------------------------------------------------ load_and_flatten, clean_pipeline

\* pd.DataFrame(flat_records): a RangeIndex and the dictionaries' key order
DataFrame(flat_records) ==
    [cols |-> FlatColumns,
     rows |-> [i \in 1..Len(flat_records) |-> [index |-> i - 1, c |-> flat_records[i]]]]

\* df.drop(columns=names)
DropColumns(df, names) ==
    [cols |-> SelectSeq(df.cols, LAMBDA k : k \notin names),
     rows |-> [i \in 1..Len(df.rows) |->
                 [index |-> df.rows[i].index,
                  c |-> Restrict(df.rows[i].c, DOMAIN df.rows[i].c \ names)]]]

Idle == <<dob, parsed, record, flat>>

LoadAndFlatten ==
    /\ pc = "load_and_flatten"
    /\ LET flat_records == [i \in 1..Len(raw) |-> flatten_record(raw[i])]
       IN  IF \E i \in 1..Len(raw) : flat_records[i].raised
           THEN pc' = "raised" /\ table' = table
           ELSE /\ pc' = "remove_duplicates"
                /\ table' = DataFrame([i \in 1..Len(raw) |-> flat_records[i].value])
    /\ UNCHANGED <<raw, cleaned, run, Idle>>

RemoveDuplicates ==
    /\ pc = "remove_duplicates"
    /\ table' = remove_duplicates(table)
    /\ pc' = "standardize_gender"
    /\ UNCHANGED <<raw, cleaned, run, Idle>>

StandardizeGender ==
    /\ pc = "standardize_gender"
    /\ table' = standardize_gender(table)
    /\ pc' = "normalize_dates"
    /\ UNCHANGED <<raw, cleaned, run, Idle>>

NormalizeDates ==
    /\ pc = "normalize_dates"
    /\ table' = normalize_dates(table).value
    /\ pc' = IF normalize_dates(table).raised THEN "raised" ELSE "fix_income_types"
    /\ UNCHANGED <<raw, cleaned, run, Idle>>

FixIncomeTypes ==
    /\ pc = "fix_income_types"
    /\ table' = fix_income_types(table)
    /\ pc' = "fix_invalid_values"
    /\ UNCHANGED <<raw, cleaned, run, Idle>>

FixInvalidValues ==
    /\ pc = "fix_invalid_values"
    /\ table' = fix_invalid_values(table)
    /\ pc' = "validate_emails"
    /\ UNCHANGED <<raw, cleaned, run, Idle>>

ValidateEmails ==
    /\ pc = "validate_emails"
    /\ table' = validate_emails(table)
    /\ pc' = "flag_missing_fields"
    /\ UNCHANGED <<raw, cleaned, run, Idle>>

FlagMissingFields ==
    /\ pc = "flag_missing_fields"
    /\ table' = flag_missing_fields(table)
    /\ pc' = "flag_ssn_duplicates"
    /\ UNCHANGED <<raw, cleaned, run, Idle>>

FlagSsnDuplicates ==
    /\ pc = "flag_ssn_duplicates"
    /\ table' = flag_ssn_duplicates(table)
    /\ pc' = "done"
    /\ UNCHANGED <<raw, cleaned, run, Idle>>

AuditColumns == {"gender_original", "date_of_birth_original"}

\* the cleaned table, minus the _original audit columns, is cleaned again
CleanAgain ==
    /\ pc = "done"
    /\ run = 1
    /\ cleaned' = table
    /\ table' = DropColumns(table, AuditColumns)
    /\ run' = 2
    /\ pc' = "remove_duplicates"
    /\ UNCHANGED <<raw, Idle>>

\* ------------------------------------------------------- pipeline inputs tried

MaxRecords == 2

RawIds == {Str("A1"), Str("A2")}
RawNotes == {Absent, Str("RESUBMISSION"), Str("DUPLICATE_ENTRY_ERROR")}
RawSsns == {Absent, Str(""), Str("111")}

Applicant(info, fin, dec, id, notes) ==
    Present(("_id" :> id) @@ ("applicant_info" :> info) @@ ("financials" :> fin)
            @@ ("decision" :> dec) @@ ("notes" :> notes)
            @@ ("spending_behavior" :>
                  List(<<[category |-> Rent, amount |-> Whole(900)]>>)))

\* complete applications that differ in app_id, notes and ssn
CompleteRecords ==
    { Applicant(Map(Present([FullApplicantInfo EXCEPT !.ssn = ssn])),
                Map(FullFinancials), Map(FullDecision), id, notes) :
        id \in RawIds, notes \in RawNotes, ssn \in RawSsns }

\* applications with values the cleaning steps correct, flag or reject
DirtyRecords ==
    { Applicant(Map([FullApplicantInfo EXCEPT
                        !.gender = Str("male"), !.ssn = Str("222"), !.email = EmailBad,
                        !.date_of_birth =
                            Txt(<<"n", "o", "t", "-", "a", "-", "d", "a", "t", "e">>)]),
                Map([FullFinancials EXCEPT
                        !.annual_income = Txt(<<"a", "b", "c">>),
                        !.credit_history_months = Whole(-5),
                        !.savings_balance = Num(-15, 1)]),
                Map(FullDecision), Str("A2"), Absent),
      Present(("_id" :> Str("A2"))),
      Applicant(Map([FullApplicantInfo EXCEPT
                        !.gender = Str("M"),
                        !.date_of_birth =
                            Txt(<<"a", "b", "/", "c", "d", "/", "2", "0", "2", "0">>)]),
                Map([FullFinancials EXCEPT
                        !.annual_income = Txt(<<"6", "0", "0", "0", "0", ".", "5">>)]),
                Map(FullDecision), Str("A2"), Absent),
      Applicant(Map(Present([FullApplicantInfo EXCEPT
                        !.gender = Str(""), !.ssn = Str("222"), !.email = Absent,
                        !.date_of_birth =
                            Txt(<<"0", "5", "/", "1", "3", "/", "2", "0", "2", "0">>)])),
                Map([FullFinancials EXCEPT !.annual_income = Num(500015, 1)]),
                Absent, Str("A2"), Absent),
      Applicant(Map([FullApplicantInfo EXCEPT
                        !.gender = Str("Male"), !.ssn = Str("222"),
                        !.date_of_birth =
                            Txt(<<"2", "0", "2", "0", "-", "0", "5", "-", "0", "1">>)]),
                Map(FullFinancials), Map(FullDecision), Str("A2"), Absent),
      Applicant(Map(Restrict(FullApplicantInfo,
                             DOMAIN FullApplicantInfo \ {"email", "ssn"})),
                Map(FullFinancials), Map(FullDecision), Str("A2"), Absent) }

PipelineRecords == CompleteRecords \cup DirtyRecords

Init ==
    /\ pc = "load_and_flatten"
    /\ raw \in UNION { [1..n -> PipelineRecords] : n \in 1..MaxRecords }
    /\ table = EmptyTable
    /\ cleaned = EmptyTable
    /\ run = 1
    /\ dob = NoValue
    /\ parsed = Returned(NoValue)
    /\ record = <<>>
    /\ flat = Returned(NoValue)

Next ==
    \/ LoadAndFlatten
    \/ RemoveDuplicates
    \/ StandardizeGender
    \/ NormalizeDates
    \/ FixIncomeTypes
    \/ FixInvalidValues
    \/ ValidateEmails
    \/ FlagMissingFields
    \/ FlagSsnDuplicates
    \/ CleanAgain

Spec == Init /\ [][Next]_vars

\* --------------------------------------------- remove_duplicates on its own

MaxDedupRows == 3

BaseRow ==
    flatten_record(Applicant(Map(FullApplicantInfo), Map(FullFinancials),
                             Map(FullDecision), Str("A1"), Absent)).value

DedupIds == {Str("A1"), Str("A2"), NoValue}
DedupNotes ==
    {NoValue, Str("RESUBMISSION"), Str("DUPLICATE_ENTRY_ERROR"), Str("manual review")}

DedupRows ==
    { ("app_id" :> id) @@ ("notes" :> n) @@ BaseRow : id \in DedupIds, n \in DedupNotes }

InitDedup ==
    /\ pc = "remove_duplicates"
    /\ table \in { DataFrame(rs) :
                     rs \in UNION { [1..n -> DedupRows] : n \in 0..MaxDedupRows } }
    /\ raw = <<>>
    /\ cleaned = EmptyTable
    /\ run = 1
    /\ dob = NoValue
    /\ parsed = Returned(NoValue)
    /\ record = <<>>
    /\ flat = Returned(NoValue)

NextDedup == RemoveDuplicates

SpecDedup == InitDedup /\ [][NextDedup]_vars

\* -------------------------------------------- standardize_gender on its own

MaxGenderRows == 2

GenderTried ==
    {NoValue, Str(""), Str("Male"), Str("M"), Str("Female"), Str("F"),
     Str("male"), Str("m"), Str("Other")}

InitGender ==
    /\ pc = "standardize_gender"
    /\ table \in { DataFrame(rs) :
                     rs \in UNION { [1..n -> { ("gender" :> g) @@ BaseRow : g \in GenderTried }] :
                                      n \in 0..MaxGenderRows } }
    /\ raw = <<>>
    /\ cleaned = EmptyTable
    /\ run = 1
    /\ dob = NoValue
    /\ parsed = Returned(NoValue)
    /\ record = <<>>
    /\ flat = Returned(NoValue)

NextGender == StandardizeGender

SpecGender == InitGender /\ [][NextGender]_vars

\* ------------------------------------------------------------ C1, C5

Indexes(df) == [i \in 1..Len(df.rows) |-> df.rows[i].index]
AppIds(df) == Column(df, "app_id")

\* rows i < j are the two rows of df with their app_id (one that is present)
\* and one of them is a resubmission
C1_Case(df, i, j) ==
    /\ i < j
    /\ df.rows[i].c["app_id"] /= NoValue
    /\ df.rows[i].c["app_id"] = df.rows[j].c["app_id"]
    /\ \A k \in 1..Len(df.rows) :
          df.rows[k].c["app_id"] = df.rows[i].c["app_id"] => k \in {i, j}
    /\ \/ df.rows[i].c["notes"] = Str("RESUBMISSION")
       \/ df.rows[j].c["notes"] = Str("RESUBMISSION")

C1_Survivor(df, i, j) ==
    IF df.rows[i].c["notes"] /= Str("RESUBMISSION") THEN df.rows[i]
    ELSE IF df.rows[j].c["notes"] /= Str("RESUBMISSION") THEN df.rows[j]
    ELSE df.rows[i]

C1_Step ==
    pc = "remove_duplicates" =>
        \A i, j \in 1..Len(table.rows) :
            C1_Case(table, i, j) =>
                { table'.rows[k] : k \in
                    { k \in 1..Len(table'.rows) :
                        table'.rows[k].c["app_id"] = table.rows[i].c["app_id"] } }
                  = { C1_Survivor(table, i, j) }

\* C1: when two rows share an app_id and at least one is a RESUBMISSION,
\* remove_duplicates returns exactly one row with that app_id: the
\* non-resubmission one if there is one, else the first occurrence.
C1_OneSurvivor == [][C1_Step]_vars

C5_FirstUnmarked(df) ==
    { i \in 1..Len(df.rows) :
        /\ df.rows[i].c["notes"] \notin
              {Str("DUPLICATE_ENTRY_ERROR"), Str("RESUBMISSION")}
        /\ \A j \in 1..(i - 1) :
              df.rows[j].c["notes"] \in {Str("DUPLICATE_ENTRY_ERROR"), Str("RESUBMISSION")}
                \/ df.rows[j].c["app_id"] /= df.rows[i].c["app_id"] }

C5_Step ==
    pc = "remove_duplicates" =>
        /\ \A a, b \in 1..Len(table'.rows) :
              a /= b => table'.rows[a].c["app_id"] /= table'.rows[b].c["app_id"]
        /\ \A a \in 1..Len(table'.rows) :
              table'.rows[a].c["notes"] \notin
                  {Str("DUPLICATE_ENTRY_ERROR"), Str("RESUBMISSION")}
        /\ { table'.rows[a] : a \in 1..Len(table'.rows) }
              = { table.rows[i] : i \in C5_FirstUnmarked(table) }
        /\ Len(table'.rows) = Cardinality(C5_FirstUnmarked(table))
        /\ \A a, b \in 1..Len(table'.rows) :
              a < b => table'.rows[a].index < table'.rows[b].index
        /\ table'.cols = table.cols

\* C5: the result of remove_duplicates has pairwise distinct app_ids (a
\* missing app_id is one value), no row with a marker note, and is exactly
\* the first unmarked row of each app_id, in the original order.
C5_Dedup == [][C5_Step]_vars

C5_Witness ==
    /\ pc = "standardize_gender"
    /\ Indexes(table) = <<0, 2>>
    /\ table.rows[1].c["app_id"] = NoValue
    /\ raw = <<>>

\* ------------------------------------------------------------ C10

C10_Step ==
    pc = "standardize_gender" =>
        /\ Len(table'.rows) = Len(table.rows)
        /\ \A i \in 1..Len(table.rows) :
              LET g == table.rows[i].c["gender"]
              IN  /\ table'.rows[i].c["gender_original"] = g
                  /\ table'.rows[i].c["gender"] =
                        (IF g \in {Str("Male"), Str("M")} THEN Str("Male")
                         ELSE IF g \in {Str("Female"), Str("F")} THEN Str("Female")
                         ELSE NoValue)

\* C10: after standardize_gender, gender_original is the gender the row had
\* before, and gender is Male for exactly "Male"/"M", Female for exactly
\* "Female"/"F", and no-value for anything else.
C10_Gender == [][C10_Step]_vars

C10_Witness ==
    /\ pc = "normalize_dates"
    /\ Len(table.rows) = 2
    /\ table.rows[1].c["gender_original"] = Str("male")
    /\ table.rows[1].c["gender"] = NoValue
    /\ table.rows[2].c["gender_original"] = Str("F")
    /\ table.rows[2].c["gender"] = Str("Female")
    /\ raw = <<>>

\* ------------------------------------------------------------ C2

FlagColumns ==
    {"email_valid", "ssn_duplicate_flag", "completeness_score", "completeness_pct"}

\* C2: cleaning the cleaned table again (without the _original columns)
\* removes no row and gives every row the same flag values, and the dates
\* already normalized survive.
C2_Idempotent ==
    (pc = "done" /\ run = 2) =>
        /\ Indexes(table) = Indexes(cleaned)
        /\ \A i \in 1..Len(table.rows) :
              /\ \A k \in FlagColumns : table.rows[i].c[k] = cleaned.rows[i].c[k]
              /\ table.rows[i].c["date_of_birth"] = cleaned.rows[i].c["date_of_birth"]

\* ------------------------------------------------------------ C6

\* C6: in the table clean_pipeline returns, ssn_duplicate_flag is a boolean,
\* true exactly when the row's ssn is present, non-empty and equal to the ssn
\* of another row of the returned table.
C6_SsnFlag ==
    pc = "done" =>
        \A i \in 1..Len(table.rows) :
            LET ssn == table.rows[i].c["ssn"]
                flag == table.rows[i].c["ssn_duplicate_flag"]
            IN  /\ flag.t = "bool"
                /\ flag.b <=>
                      /\ ssn.t /= "none"
                      /\ ssn /= Str("")
                      /\ \E j \in 1..Len(table.rows) :
                            j /= i /\ table.rows[j].c["ssn"] = ssn

\* two records with the same ssn were loaded, deduplication removed one and
\* the survivor is not flagged
C6_Witness ==
    /\ pc = "done"
    /\ run = 1
    /\ Len(raw) = 2
    /\ \A i \in 1..2 : flatten_record(raw[i]).value["ssn"] = Str("111")
    /\ Len(table.rows) = 1
    /\ table.rows[1].c["ssn_duplicate_flag"] = Bool(FALSE)

\* ------------------------------------------------------------ C7

C7_Present(row) ==
    { f \in { core_fields[k] : k \in 1..Len(core_fields) } :
        row.c[f].t /= "none" /\ row.c[f] /= Str("") /\ row.c[f] /= Txt(<<>>) }

C8_Steps ==
    {"standardize_gender", "normalize_dates", "fix_income_types",
     "fix_invalid_values", "validate_emails", "flag_missing_fields",
     "flag_ssn_duplicates"}

C8_Annotations ==
    <<"gender_original", "date_of_birth_original", "email_valid",
      "completeness_score", "completeness_pct", "ssn_duplicate_flag">>

\* the table the clean_pipeline call in progress was given
C8_Input ==
    IF run = 1 THEN DataFrame([i \in 1..Len(raw) |-> flatten_record(raw[i]).value])
    ELSE DropColumns(cleaned, {"gender_original", "date_of_birth_original"})

C8_StepFrame ==
    pc \in C8_Steps =>
        /\ Indexes(table') = Indexes(table)
        /\ AppIds(table') = AppIds(table)
        /\ Len(table'.cols) >= Len(table.cols)
        /\ SubSeq(table'.cols, 1, Len(table.cols)) = table.cols
        /\ pc = "validate_emails" => Column(table', "email") = Column(table, "email")

C8_Output ==
    pc = "done" =>
        /\ Indexes(table) = Indexes(remove_duplicates(C8_Input))
        /\ table.cols = C8_Input.cols
              \o SelectSeq(C8_Annotations, LAMBDA k : ~HasColumn(C8_Input, k))
        /\ run = 1 => table.cols = FlatColumns \o C8_Annotations

\* C8: every step after remove_duplicates returns the same rows in the same
\* order and removes no column, validate_emails leaves email unchanged; so
\* the output's rows are those that survive remove_duplicates and its columns
\* are the input's followed by the annotation columns in the order added.
C8_Frame == [][C8_StepFrame]_vars /\ []C8_Output

C8_Witness ==
    /\ pc = "done"
    /\ run = 1
    /\ Len(raw) = 2
    /\ Len(table.rows) = 1
    /\ Len(table.cols) = 28

====
